---- MODULE Spec2Model ----
(***************************************************************************)
(* Model of scripts/generate_namd_configs.py: the batch generator of NAMD  *)
(* control files (main), the synthesizer (create_namd_config), and the     *)
(* directive-by-directive execution of one generated document.             *)
(*                                                                         *)
(* Real-valued quantities of the script (timestep, picosecond durations,   *)
(* temperatures, distances) are kept in fixed point, in TENTHS of their    *)
(* unit: 2.0 fs is 20, 12.5 A is 125, 285.0 K is 2850.                     *)
(***************************************************************************)
EXTENDS Integers, Sequences, FiniteSets, TLC

(***************************************************************************)
(* Bounds of the model (not program constants).                            *)
(***************************************************************************)
\* number of separate invocations of the script that are followed
MaxRuns == 2
\* the per-process string-hash secrets range over 0..MaxSecret
MaxSecret == 1

Secrets == 0..MaxSecret

(***************************************************************************)
(* Module-level constants of the script.                                   *)
(***************************************************************************)
SYSTEMS ==
  << <<"regime0_1RC7_300K", 300, "small">>,
     <<"regime0_1RC7_350K", 350, "small">>,
     <<"regime1_1A60_300K", 300, "small">>,
     <<"regime1_1A60_350K", 350, "small">>,
     <<"regime2_165D_300K", 300, "tiny">>,
     <<"regime2_165D_350K", 350, "tiny">>,
     <<"regime3_1K8W_300K", 300, "tiny">>,
     <<"regime3_1K8W_350K", 350, "tiny">>,
     <<"regime4_1LNG_300K", 300, "medium">>,
     <<"regime4_1LNG_350K", 350, "medium">>,
     <<"regime5_1E7K_300K", 300, "small">>,
     <<"regime5_1E7K_350K", 350, "small">>,
     <<"regime6_1KXK_300K", 300, "medium">>,
     <<"regime6_1KXK_350K", 350, "medium">>,
     <<"regime7_1IDV_300K", 300, "tiny">>,
     <<"regime7_1IDV_350K", 350, "tiny">>,
     <<"regime8_regime8_domain_300K", 300, "xlarge">>,
     <<"regime9_1DRZ_300K", 300, "medium">>,
     <<"regime9_1DRZ_350K", 350, "medium">>,
     <<"regime10_1MJI_300K", 300, "medium">>,
     <<"regime10_1MJI_350K", 350, "medium">>,
     <<"regime11_1HQ1_300K", 300, "medium">>,
     <<"regime11_1HQ1_350K", 350, "medium">>,
     <<"regime12_1KQ2_300K", 300, "tiny">>,
     <<"regime12_1KQ2_350K", 350, "tiny">> >>

N_REPLICAS == 10
SIM_LENGTH_NS == 20
\* 2.0 fs, in tenths of a femtosecond
TIMESTEP_FS == 20
\* 10.0 ps, in tenths of a picosecond
OUTPUT_FREQ_PS == 100
EQUIL_MINIMIZE_STEPS == 10000
\* 0.2, 0.5 and 0.5, in tenths
EQUIL_HEAT_PS == 2
EQUIL_NVT_PS == 5
EQUIL_NPT_PS == 5

(***************************************************************************)
(* Python's built-in hash() of a str.  CPython keys the string hash with a *)
(* secret drawn once per process (unless PYTHONHASHSEED pins it), so the   *)
(* value is a function of the string's content AND of the process secret,  *)
(* and it is a signed machine integer.  The keyed mixing function is       *)
(* abstracted: NameCode stands for the content of the string, the result   *)
(* is a signed 16-bit value.                                               *)
(***************************************************************************)
NameCode(system_name) ==
  CHOOSE k \in 1..Len(SYSTEMS) : SYSTEMS[k][1] = system_name

hash(system_name, secret) ==
  LET u == (NameCode(system_name) * 7919 + secret * 10473 + 12007) % 65536
  IN  IF u >= 32768 THEN u - 65536 ELSE u

(***************************************************************************)
(* String formatting: "{replica:02d}" and the file name of a document.     *)
(***************************************************************************)
Digit == <<"0", "1", "2", "3", "4", "5", "6", "7", "8", "9">>

RECURSIVE DecStr(_)
DecStr(n) ==
  IF n < 10 THEN Digit[n + 1] ELSE DecStr(n \div 10) \o Digit[(n % 10) + 1]

Fmt02d(n) == IF n < 10 THEN "0" \o DecStr(n) ELSE DecStr(n)

output_name(system_name, replica_id) ==
  system_name \o "_rep" \o Fmt02d(replica_id)

config_file(system_name, replica) ==
  system_name \o "_rep" \o Fmt02d(replica) \o ".namd"

(***************************************************************************)
(* create_namd_config: the derived step counts.  int() truncates; all the  *)
(* operands are positive, so \div is the same.                             *)
(***************************************************************************)
steps_per_ns == (1000000 * 10) \div TIMESTEP_FS
total_prod_steps == SIM_LENGTH_NS * steps_per_ns
\* an output cadence taken in picoseconds instead of steps
output_freq_inPs == OUTPUT_FREQ_PS \div 10

output_freq == (OUTPUT_FREQ_PS * 1000) \div TIMESTEP_FS
heat_steps == (EQUIL_HEAT_PS * 1000000) \div TIMESTEP_FS
nvt_steps == (EQUIL_NVT_PS * 1000000) \div TIMESTEP_FS
npt_steps == (EQUIL_NPT_PS * 1000000) \div TIMESTEP_FS

\* a seed that leaves the replica term out
seed_noReplica(system_name, replica_id, secret) ==
  12345 + (hash(system_name, secret) % 1000)

\* seed = 12345 + replica_id * 1000 + hash(system_name) % 1000
seed(system_name, replica_id, secret) ==
  12345 + replica_id * 1000 + (hash(system_name, secret) % 1000)

\* a tier lookup that tests for "small" where the script tests for "medium"
SizeProfile_smallAsMedium(system_size) ==
  IF system_size = "xlarge" THEN <<10, 130, 200>>
  ELSE IF system_size = "small" THEN <<9, 125, 180>>
  ELSE <<8, 120, 160>>

\* the size tier: <<pme_grid, pairlist, patch_dim>>, in tenths
SizeProfile(system_size) ==
  IF system_size = "xlarge" THEN <<10, 130, 200>>
  ELSE IF system_size = "medium" THEN <<9, 125, 180>>
  ELSE <<8, 120, 160>>

(***************************************************************************)
(* The generated document.  It is a sequence of directives [cmd, arg], one *)
(* per non-comment line of the template, in the template's order; arg is   *)
(* the text after the keyword with the template's fields substituted.      *)
(* Temperatures are in tenths of a kelvin.                                 *)
(***************************************************************************)
D(cmd, arg) == [cmd |-> cmd, arg |-> arg]

\* the texts that the document prints when a stage begins
STAGE_MINIMIZE == "EQUILIBRATION STAGE 1: Minimization"
STAGE_HEAT == "EQUILIBRATION STAGE 2: Restrained heating"
STAGE_NVT == "EQUILIBRATION STAGE 3: NVT equilibration"
STAGE_NPT == "EQUILIBRATION STAGE 4: NPT equilibration"
STAGE_PRODUCTION == "PRODUCTION"
STAGE_COMPLETE == "COMPLETE"

topology(system_name, ext) == "../topology_files/" \o system_name \o ext

InputSection(system_name, temperature, replica_id, secret) ==
  << D("## NAMD Config", <<system_name, replica_id>>),
     D("amber", "yes"),
     D("parmfile", topology(system_name, ".prmtop")),
     D("ambercoor", topology(system_name, ".inpcrd")),
     D("temperature", temperature * 10),
     D("seed", seed(system_name, replica_id, secret)) >>

OutputSection(system_name, replica_id) ==
  << D("outputName", output_name(system_name, replica_id)),
     D("binaryoutput", "yes"),
     D("binaryrestart", "yes"),
     D("restartfreq", output_freq),
     D("dcdfreq", output_freq),
     D("xstFreq", output_freq),
     D("outputEnergies", output_freq * 5),
     D("outputTiming", output_freq * 10),
     D("flushOutput", "yes") >>

IntegrationSection ==
  << D("timestep", TIMESTEP_FS),
     D("rigidBonds", "all"),
     D("nonbondedFreq", 1),
     D("fullElectFrequency", 2),
     D("stepspercycle", 20) >>

ForceFieldSection(system_size) ==
  << D("exclude", "scaled1-4"),
     D("1-4scaling", "0.833333"),
     D("switching", "on"),
     D("switchdist", 100),
     D("cutoff", 120),
     D("pairlistdist", SizeProfile(system_size)[2]),
     D("PME", "yes"),
     D("PMEGridSpacing", SizeProfile(system_size)[1]),
     D("PMEInterpOrder", 6) >>

ThermostatSection(temperature) ==
  << D("langevin", "on"),
     D("langevinDamping", 10),
     D("langevinTemp", temperature * 10),
     D("langevinHydrogen", "off"),
     D("useGroupPressure", "yes"),
     D("useFlexibleCell", "no"),
     D("useConstantArea", "no"),
     D("langevinPiston", "on"),
     D("langevinPistonTarget", "1.01325"),
     D("langevinPistonPeriod", 1000),
     D("langevinPistonDecay", 500),
     D("langevinPistonTemp", temperature * 10) >>

PerformanceSection(system_size) ==
  << D("CUDASOAintegrate", "on"),
     D("margin", 25),
     D("patchDimension", SizeProfile(system_size)[3]) >>

MinimizeSection ==
  << D("print", <<STAGE_MINIMIZE, EQUIL_MINIMIZE_STEPS>>),
     D("minimize", EQUIL_MINIMIZE_STEPS) >>

\* a heating loop of 10 iterations of heat_steps / 10 each
HeatLoop_tenth(temperature) ==
  D("for", [start |-> 0, below |-> 10,
            body  |-> << D("set temp", [T |-> temperature, div |-> 10]),
                         D("langevinTemp", "$temp"),
                         D("langevinPistonTemp", "$temp"),
                         D("run", [num |-> heat_steps, den |-> 10]) >>])

\* the Tcl loop of the heating stage, left in the document as script text:
\*   for {set i 0} {$i < 10} {incr i} {
\*       set temp [expr T * 0.5 + (T * 0.5) * $i / 10.0]
\*       langevinTemp $temp ; langevinPistonTemp $temp
\*       run [expr heat_steps / 20] }
HeatLoop(temperature) ==
  D("for", [start |-> 0, below |-> 10,
            body  |-> << D("set temp", [T |-> temperature, div |-> 10]),
                         D("langevinTemp", "$temp"),
                         D("langevinPistonTemp", "$temp"),
                         D("run", [num |-> heat_steps, den |-> 20]) >>])

HeatSection(system_name, temperature) ==
  << D("print", <<STAGE_HEAT, temperature, EQUIL_HEAT_PS>>),
     D("constraints", "on"),
     D("consref", topology(system_name, ".inpcrd")),
     D("conskfile", topology(system_name, ".inpcrd")),
     D("conskcol", "B"),
     D("constraintScaling", 50),
     D("velocity reassign", temperature * 5),
     D("run", heat_steps \div 2),
     HeatLoop(temperature) >>

NvtSection ==
  << D("print", <<STAGE_NVT, EQUIL_NVT_PS>>),
     D("langevinPiston", "off"),
     D("constraintScaling", 20),
     D("run", nvt_steps) >>

\* an NPT stage that never releases the restraints
NptSection_keepRestraints ==
  << D("print", <<STAGE_NPT, EQUIL_NPT_PS>>),
     D("langevinPiston", "on"),
     D("constraintScaling", 10),
     D("run", npt_steps \div 2),
     D("run", npt_steps \div 2) >>

NptSection ==
  << D("print", <<STAGE_NPT, EQUIL_NPT_PS>>),
     D("langevinPiston", "on"),
     D("constraintScaling", 10),
     D("run", npt_steps \div 2),
     D("constraints", "off"),
     D("run", npt_steps \div 2) >>

ProductionSection(system_name, temperature, replica_id) ==
  << D("print", <<STAGE_PRODUCTION, SIM_LENGTH_NS, temperature>>),
     D("dcdfreq", output_freq),
     D("xstFreq", output_freq),
     D("restartfreq", output_freq),
     D("outputEnergies", output_freq),
     D("run", total_prod_steps),
     D("print", <<STAGE_COMPLETE, output_name(system_name, replica_id)>>) >>

\* returns <<config, system_size>>
create_namd_config(system_name, temperature, replica_id, system_size, secret) ==
  << InputSection(system_name, temperature, replica_id, secret)
       \o OutputSection(system_name, replica_id)
       \o IntegrationSection
       \o ForceFieldSection(system_size)
       \o ThermostatSection(temperature)
       \o PerformanceSection(system_size)
       \o MinimizeSection
       \o HeatSection(system_name, temperature)
       \o NvtSection
       \o NptSection
       \o ProductionSection(system_name, temperature, replica_id),
     system_size >>

\* the argument of the first directive of document doc with keyword cmd
Arg(doc, cmd) == doc[CHOOSE k \in 1..Len(doc) : doc[k].cmd = cmd].arg

\* a manifest row that names the output stem instead of the file
MetadataRow_stem(system_name, replica, sys_size, temperature) ==
  <<system_name \o "_rep" \o Fmt02d(replica), sys_size, temperature>>

\* one manifest row: the tab-separated fields of the line
MetadataRow(system_name, replica, sys_size, temperature) ==
  <<system_name \o "_rep" \o Fmt02d(replica) \o ".namd", sys_size, temperature>>

METADATA_HEADER == <<"# config_file", "system_size", "temperature">>

(***************************************************************************)
(* State.                                                                  *)
(*   The generator process (main):                                         *)
(*     run         which invocation of the script this is (1..MaxRuns)     *)
(*     hashSecret  the string-hash secret of this process                  *)
(*     pc          position in main                                        *)
(*     sysIdx, replica   the loop variables (index into SYSTEMS, replica)  *)
(*     result      what create_namd_config returned: <<config, sys_size>>  *)
(*     metadata, count   the locals of main                                *)
(*   The file system, which outlives a process:                            *)
(*     files       namd_configs/*.namd: file name -> document              *)
(*     manifest    namd_configs/system_metadata.txt: sequence of lines     *)
(*   History of this process:                                              *)
(*     calls       the create_namd_config calls made, in order             *)
(*     written     the document files written, in order                    *)
(*     flushes     how many times system_metadata.txt was written          *)
(*   The execution of one document by the simulation engine:               *)
(*     job         which document it is: the catalog entry and the replica *)
(*     script      the document being executed                             *)
(*     ip          index of the next directive                             *)
(*     loop        state of the Tcl for loop: [on, i, pos]                 *)
(*     tclTemp     the Tcl variable temp (tenths of a kelvin)              *)
(*     params      the engine parameters set so far: keyword -> value      *)
(*     stage       the stage last announced by a print directive           *)
(*     runLog      the run/minimize segments executed, with the parameters *)
(*                 in effect during each                                   *)
(***************************************************************************)
VARIABLES run, hashSecret, pc, sysIdx, replica, result, metadata, count,
          files, manifest, calls, written, flushes,
          job, script, ip, loop, tclTemp, params, stage, runLog

procVars == <<run, hashSecret, pc, sysIdx, replica, result, metadata, count>>
diskVars == <<files, manifest>>
histVars == <<calls, written, flushes>>
namdVars == <<job, script, ip, loop, tclTemp, params, stage, runLog>>
vars == <<procVars, diskVars, histVars, namdVars>>

EmptyMap == [k \in {} |-> 0]
NoLoop == [on |-> FALSE, i |-> 0, pos |-> 0]

\* the locals of main when the loops are entered (lines 234-238)
MainStart ==
  /\ pc = "synth"
  /\ sysIdx = 1
  /\ replica = 0
  /\ result = <<>>
  /\ metadata = <<>>
  /\ count = 0
  /\ calls = <<>>
  /\ written = <<>>
  /\ flushes = 0

NamdIdle ==
  /\ job = <<>>
  /\ script = <<>>
  /\ ip = 0
  /\ loop = NoLoop
  /\ tclTemp = 0
  /\ params = EmptyMap
  /\ stage = "none"
  /\ runLog = <<>>

Init ==
  /\ run = 1
  /\ hashSecret \in Secrets
  /\ MainStart
  /\ files = EmptyMap
  /\ manifest = <<>>
  /\ NamdIdle

(***************************************************************************)
(* main, one action per statement of the loop body.                        *)
(***************************************************************************)
\* line 239: config, sys_size = create_namd_config(...)
Synthesize ==
  /\ pc = "synth"
  /\ result' = create_namd_config(SYSTEMS[sysIdx][1], SYSTEMS[sysIdx][2],
                                  replica, SYSTEMS[sysIdx][3], hashSecret)
  /\ calls' = Append(calls, <<sysIdx, replica>>)
  /\ pc' = "write"
  /\ UNCHANGED <<run, hashSecret, sysIdx, replica, metadata, count,
                 diskVars, written, flushes, namdVars>>

\* lines 241-243: open(config_file, 'w') truncates, write(config)
WriteDocument ==
  /\ pc = "write"
  /\ LET f == config_file(SYSTEMS[sysIdx][1], replica)
     IN  /\ files' = (f :> result[1]) @@ files
         /\ written' = Append(written, f)
  /\ pc' = "append"
  /\ UNCHANGED <<run, hashSecret, sysIdx, replica, result, metadata, count,
                 manifest, calls, flushes, namdVars>>

\* loops that leave the inner loop after its first iteration
NextPair_firstOnly(i, r) == <<i + 1, 0>>

\* the loop variables after the body has run for <<i, r>>:
\* inner loop over range(N_REPLICAS), outer loop over SYSTEMS
NextPair(i, r) == IF r + 1 < N_REPLICAS THEN <<i, r + 1>> ELSE <<i + 1, 0>>

\* lines 245-249, and the step of the two for loops
AppendMetadata ==
  /\ pc = "append"
  /\ metadata' = Append(metadata,
                   MetadataRow(SYSTEMS[sysIdx][1], replica, result[2],
                               SYSTEMS[sysIdx][2]))
  /\ count' = count + 1
  /\ sysIdx' = NextPair(sysIdx, replica)[1]
  /\ replica' = NextPair(sysIdx, replica)[2]
  /\ pc' = IF NextPair(sysIdx, replica)[1] > Len(SYSTEMS)
           THEN "flush" ELSE "synth"
  /\ UNCHANGED <<run, hashSecret, result, diskVars, histVars, namdVars>>

\* lines 252-254: the header line, then the accumulated rows
WriteMetadata ==
  /\ pc = "flush"
  /\ manifest' = <<METADATA_HEADER>> \o metadata
  /\ flushes' = flushes + 1
  /\ pc' = "done"
  /\ UNCHANGED <<run, hashSecret, sysIdx, replica, result, metadata, count,
                 files, calls, written, namdVars>>

\* the script is invoked again: a new process, with a hash secret of its
\* own, over the output directory the previous invocation left behind
Reinvoke ==
  /\ pc = "done"
  /\ run < MaxRuns
  /\ run' = run + 1
  /\ hashSecret' \in Secrets
  /\ pc' = "synth"
  /\ sysIdx' = 1
  /\ replica' = 0
  /\ result' = <<>>
  /\ metadata' = <<>>
  /\ count' = 0
  /\ calls' = <<>>
  /\ written' = <<>>
  /\ flushes' = 0
  /\ UNCHANGED <<diskVars, namdVars>>

Next ==
  \/ Synthesize
  \/ WriteDocument
  \/ AppendMetadata
  \/ WriteMetadata
  \/ Reinvoke

Spec == Init /\ [][Next]_vars

(***************************************************************************)
(* Execution of one generated document, directive by directive.  A keyword *)
(* line sets the engine parameter of that name until it is set again; run  *)
(* and minimize advance the simulation under the parameters then in        *)
(* effect; print announces a stage; the for loop is Tcl.                   *)
(***************************************************************************)
\* the run of `steps` steps about to be executed, as a log entry
Segment(cmd, steps) ==
  [stage |-> stage, cmd |-> cmd, steps |-> steps, params |-> params]

\* Tcl: expr T * 0.5 + (T * 0.5) * $i / 10.0, in tenths of a kelvin
\* (exact for the even temperatures of the catalog)
TclTemp(T, i) == T * 5 + ((T * 5) * i) \div 10

Directive == script[ip]
LoopBody == script[ip].arg.body
Running == ip >= 1 /\ ip <= Len(script)

\* the document that the generator produces for one catalog entry and
\* replica is handed to the engine
InitNamd ==
  /\ run = 1
  /\ hashSecret \in Secrets
  /\ MainStart
  /\ files = EmptyMap
  /\ manifest = <<>>
  /\ \E s \in 1..Len(SYSTEMS), r \in 0..(N_REPLICAS - 1) :
       /\ job = [system_name |-> SYSTEMS[s][1], temperature |-> SYSTEMS[s][2],
                 replica_id |-> r, system_size |-> SYSTEMS[s][3]]
       /\ script = create_namd_config(SYSTEMS[s][1], SYSTEMS[s][2], r,
                                      SYSTEMS[s][3], hashSecret)[1]
  /\ ip = 1
  /\ loop = NoLoop
  /\ tclTemp = 0
  /\ params = EmptyMap
  /\ stage = "none"
  /\ runLog = <<>>

NamdComment ==
  /\ Running /\ ~loop.on
  /\ Directive.cmd = "## NAMD Config"
  /\ ip' = ip + 1
  /\ UNCHANGED <<procVars, diskVars, histVars,
                 job, script, loop, tclTemp, params, stage, runLog>>

NamdSet ==
  /\ Running /\ ~loop.on
  /\ Directive.cmd \notin {"## NAMD Config", "print", "run", "minimize", "for"}
  /\ params' = (Directive.cmd :> Directive.arg) @@ params
  /\ ip' = ip + 1
  /\ UNCHANGED <<procVars, diskVars, histVars,
                 job, script, loop, tclTemp, stage, runLog>>

NamdPrint ==
  /\ Running /\ ~loop.on
  /\ Directive.cmd = "print"
  /\ stage' = Directive.arg[1]
  /\ ip' = ip + 1
  /\ UNCHANGED <<procVars, diskVars, histVars,
                 job, script, loop, tclTemp, params, runLog>>

NamdRun ==
  /\ Running /\ ~loop.on
  /\ Directive.cmd \in {"run", "minimize"}
  /\ runLog' = Append(runLog, Segment(Directive.cmd, Directive.arg))
  /\ ip' = ip + 1
  /\ UNCHANGED <<procVars, diskVars, histVars,
                 job, script, loop, tclTemp, params, stage>>

\* for {set i 0} {$i < 10} ...: initialise i and test
NamdForEnter ==
  /\ Running /\ ~loop.on
  /\ Directive.cmd = "for"
  /\ IF Directive.arg.start < Directive.arg.below
       THEN /\ loop' = [on |-> TRUE, i |-> Directive.arg.start, pos |-> 1]
            /\ ip' = ip
       ELSE /\ loop' = NoLoop
            /\ ip' = ip + 1
  /\ UNCHANGED <<procVars, diskVars, histVars,
                 job, script, tclTemp, params, stage, runLog>>

\* set temp [expr ...]
NamdLoopSetTemp ==
  /\ Running /\ loop.on /\ loop.pos <= Len(LoopBody)
  /\ LoopBody[loop.pos].cmd = "set temp"
  /\ tclTemp' = TclTemp(LoopBody[loop.pos].arg.T, loop.i)
  /\ loop' = [loop EXCEPT !.pos = @ + 1]
  /\ UNCHANGED <<procVars, diskVars, histVars,
                 job, script, ip, params, stage, runLog>>

\* langevinTemp $temp, langevinPistonTemp $temp
NamdLoopSet ==
  /\ Running /\ loop.on /\ loop.pos <= Len(LoopBody)
  /\ LoopBody[loop.pos].cmd \notin {"set temp", "run"}
  /\ params' = (LoopBody[loop.pos].cmd :> tclTemp) @@ params
  /\ loop' = [loop EXCEPT !.pos = @ + 1]
  /\ UNCHANGED <<procVars, diskVars, histVars,
                 job, script, ip, tclTemp, stage, runLog>>

\* run [expr heat_steps / 20]: integer division in Tcl
NamdLoopRun ==
  /\ Running /\ loop.on /\ loop.pos <= Len(LoopBody)
  /\ LoopBody[loop.pos].cmd = "run"
  /\ runLog' = Append(runLog,
                 Segment("run", LoopBody[loop.pos].arg.num
                                  \div LoopBody[loop.pos].arg.den))
  /\ loop' = [loop EXCEPT !.pos = @ + 1]
  /\ UNCHANGED <<procVars, diskVars, histVars,
                 job, script, ip, tclTemp, params, stage>>

\* incr i, and the test $i < 10
NamdLoopIncr ==
  /\ Running /\ loop.on /\ loop.pos > Len(LoopBody)
  /\ IF loop.i + 1 < Directive.arg.below
       THEN /\ loop' = [on |-> TRUE, i |-> loop.i + 1, pos |-> 1]
            /\ ip' = ip
       ELSE /\ loop' = NoLoop
            /\ ip' = ip + 1
  /\ UNCHANGED <<procVars, diskVars, histVars,
                 job, script, tclTemp, params, stage, runLog>>

NextNamd ==
  \/ NamdComment
  \/ NamdSet
  \/ NamdPrint
  \/ NamdRun
  \/ NamdForEnter
  \/ NamdLoopSetTemp
  \/ NamdLoopSet
  \/ NamdLoopRun
  \/ NamdLoopIncr

SpecNamd == InitNamd /\ [][NextNamd]_vars

(***************************************************************************)
(* Properties of the generator (checked under Spec).                       *)
(***************************************************************************)
WrittenSet == {written[k] : k \in 1..Len(written)}
Replicas == 0..(N_REPLICAS - 1)
BatchSize == Len(SYSTEMS) * N_REPLICAS
\* the pair of loop variables of the k-th iteration of the two loops
PairAt(k) == <<((k - 1) \div N_REPLICAS) + 1, (k - 1) % N_REPLICAS>>

\* C1: the seed, and with it the document, is the same in every invocation
\* of the generator: a document that is written again by a later process
\* (whose string-hash secret may differ) is byte-identical to the one it
\* replaces.
C1_SeedReproducible ==
  [][\A f \in DOMAIN files :
       /\ Arg(files'[f], "seed") = Arg(files[f], "seed")
       /\ files'[f] = files[f]]_vars

\* C2: within one run the seeds of the replicas of one system are pairwise
\* distinct, and every seed is 12345 + replica*1000 + h with h in 0..999.
C2_SeedsDistinctPerSystem ==
  LET W == WrittenSet
      S(s, r) == Arg(files[config_file(SYSTEMS[s][1], r)], "seed")
  IN  \A s \in 1..Len(SYSTEMS) :
        /\ \A r \in Replicas :
             config_file(SYSTEMS[s][1], r) \in W
               => (S(s, r) - 12345 - r * 1000) \in 0..999
        /\ \A r1, r2 \in Replicas :
             ( /\ r1 < r2
               /\ config_file(SYSTEMS[s][1], r1) \in W
               /\ config_file(SYSTEMS[s][1], r2) \in W )
               => S(s, r1) # S(s, r2)

\* a run has written all the replicas of a system whose hash is negative
C2_Witness ==
  \E s \in 1..Len(SYSTEMS) :
    /\ hash(SYSTEMS[s][1], hashSecret) < 0
    /\ \A r \in Replicas : config_file(SYSTEMS[s][1], r) \in WrittenSet

\* C3: when the batch completes the manifest holds len(SYSTEMS)*N_REPLICAS
\* = 250 rows, every row names a document written during the batch, every
\* written document has a row, and no two rows share a file name (system
\* names are unique in the catalog).
C3_ManifestComplete ==
  pc = "done" =>
    LET rows == Tail(manifest)
        names == {rows[k][1] : k \in 1..Len(rows)}
    IN  /\ manifest[1] = METADATA_HEADER
        /\ Len(rows) = BatchSize
        /\ Len(rows) = 250
        /\ names \subseteq WrittenSet
        /\ names \subseteq DOMAIN files
        /\ WrittenSet \subseteq names
        /\ Cardinality(names) = Len(rows)
        /\ \A i, j \in 1..Len(SYSTEMS) :
             i # j => SYSTEMS[i][1] # SYSTEMS[j][1]

C3_Witness == pc = "done" /\ Len(manifest) = BatchSize + 1 /\ run = 1

\* C4: create_namd_config is called once per (system, replica), catalog
\* order outside and replica ascending inside; each document is written
\* before the next call; rows are appended in the same order; the manifest
\* is written once, after all the documents.
C4_DriverOrder ==
  /\ \A k \in 1..Len(calls) : calls[k] = PairAt(k)
  /\ Len(calls) <= BatchSize
  /\ Len(written) <= Len(calls) /\ Len(calls) <= Len(written) + 1
  /\ Len(metadata) <= Len(written) /\ Len(written) <= Len(metadata) + 1
  /\ pc = "synth" => Len(written) = Len(calls) /\ Len(metadata) = Len(calls)
  /\ \A k \in 1..Len(written) :
       written[k] = config_file(SYSTEMS[calls[k][1]][1], calls[k][2])
  /\ \A k \in 1..Len(metadata) : metadata[k][1] = written[k]
  /\ count = Len(metadata)
  /\ flushes <= 1
  /\ flushes = 1 <=> pc = "done"
  /\ pc = "done" =>
       /\ Len(calls) = BatchSize
       /\ Len(written) = BatchSize
       /\ Tail(manifest) = metadata

C4_Witness == pc = "done" /\ flushes = 1 /\ Len(calls) = BatchSize

\* C5: the size-tier lookup gives xlarge -> (1.0, 13.0, 20.0), medium ->
\* (0.9, 12.5, 18.0), small and tiny -> (0.8, 12.0, 16.0); every catalog
\* entry has one of the four size classes; the size class returned by the
\* synthesizer and written to the manifest row is the catalog entry's.
TierTable ==
  [xlarge |-> <<10, 130, 200>>, medium |-> <<9, 125, 180>>,
   small |-> <<8, 120, 160>>, tiny |-> <<8, 120, 160>>]

C5_TierMapping ==
  /\ \A s \in 1..Len(SYSTEMS) :
       SYSTEMS[s][3] \in {"tiny", "small", "medium", "xlarge"}
  /\ pc \in {"write", "append"} =>
       /\ result[2] = SYSTEMS[sysIdx][3]
       /\ result[2] \in DOMAIN TierTable
       /\ Arg(result[1], "PMEGridSpacing") = TierTable[result[2]][1]
       /\ Arg(result[1], "pairlistdist") = TierTable[result[2]][2]
       /\ Arg(result[1], "patchDimension") = TierTable[result[2]][3]
       /\ Cardinality({k \in 1..Len(result[1]) :
            result[1][k].cmd \in {"PMEGridSpacing", "pairlistdist",
                                  "patchDimension"}}) = 3
  /\ \A k \in 1..Len(metadata) :
       metadata[k][2] = SYSTEMS[PairAt(k)[1]][3]

C5_Witness ==
  /\ pc = "append"
  /\ result[2] = "tiny"
  /\ \E k \in 1..Len(metadata) : metadata[k][2] = "small"
  /\ \E k \in 1..Len(metadata) : metadata[k][2] = "xlarge"
  /\ \E k \in 1..Len(metadata) : metadata[k][2] = "medium"
  /\ \E k \in 1..Len(metadata) : metadata[k][2] = "tiny"

(***************************************************************************)
(* Properties of the executed document (checked under SpecNamd).           *)
(***************************************************************************)
Segs(st) == SelectSeq(runLog, LAMBDA g : g.stage = st)
RECURSIVE Steps(_)
Steps(segs) == IF segs = <<>> THEN 0 ELSE Head(segs).steps + Steps(Tail(segs))
Has(g, key) == key \in DOMAIN g.params
\* parameter key of segment g is set and has value v
Is(g, key, v) == Has(g, key) /\ g.params[key] = v
JobTemp == job.temperature * 10
Cadence == {"restartfreq", "dcdfreq", "xstFreq"}

\* C6: production runs exactly SIM_LENGTH_NS * round(1e6 / TIMESTEP_FS) =
\* 10,000,000 steps; restartfreq, dcdfreq and xstFreq are all 5000, as
\* first set and as re-asserted for production, for every system and
\* replica.
C6_ProductionStepsAndCadence ==
  /\ \A k \in 1..Len(script) :
       script[k].cmd \in Cadence => script[k].arg = 5000
  /\ \A c \in Cadence :
       Cardinality({k \in 1..Len(script) : script[k].cmd = c}) = 2
  /\ \A c \in Cadence : c \in DOMAIN params => params[c] = 5000
  /\ \A k \in 1..Len(runLog) : \A c \in Cadence : Is(runLog[k], c, 5000)
  /\ \A k \in 1..Len(runLog) :
       runLog[k].stage = STAGE_PRODUCTION =>
         /\ runLog[k].steps = 10000000
         /\ runLog[k].steps = SIM_LENGTH_NS * 500000
  /\ Len(Segs(STAGE_PRODUCTION)) <= 1
  /\ stage = STAGE_COMPLETE => Len(Segs(STAGE_PRODUCTION)) = 1

C6_Witness ==
  /\ stage = STAGE_COMPLETE
  /\ Len(Segs(STAGE_PRODUCTION)) = 1
  /\ job.temperature = 350 /\ job.system_size = "medium" /\ job.replica_id = 9

\* the segments run by the heating loop: those of the heating stage but the
\* first
HeatRamp == Tail(Segs(STAGE_HEAT))

\* C7: the heating loop ramps langevinTemp and langevinPistonTemp linearly
\* over the 10 sub-increments from 0.5*T to T: the first target is 0.5*T,
\* every sub-increment raises it by the same amount, the last target is T.
C7_RampReachesTarget ==
  Segs(STAGE_HEAT) # <<>> =>
    /\ Len(HeatRamp) <= 10
    /\ \A k \in 1..Len(HeatRamp) :
         Is(HeatRamp[k], "langevinPistonTemp", HeatRamp[k].params["langevinTemp"])
    /\ Len(HeatRamp) >= 1 => Is(HeatRamp[1], "langevinTemp", JobTemp \div 2)
    /\ \A k \in 2..(Len(HeatRamp) - 1) :
         HeatRamp[k + 1].params["langevinTemp"] - HeatRamp[k].params["langevinTemp"]
           = HeatRamp[2].params["langevinTemp"] - HeatRamp[1].params["langevinTemp"]
    /\ Len(HeatRamp) = 10 => Is(HeatRamp[10], "langevinTemp", JobTemp)

\* C8: during the NVT, NPT and production runs langevinTemp and
\* langevinPistonTemp are the system's temperature.
C8_TargetTemperatureInEffect ==
  \A k \in 1..Len(runLog) :
    runLog[k].stage \in {STAGE_NVT, STAGE_NPT, STAGE_PRODUCTION} =>
      /\ Is(runLog[k], "langevinTemp", JobTemp)
      /\ Is(runLog[k], "langevinPistonTemp", JobTemp)

\* C9: the stages run in the order minimization, heating, NVT, NPT,
\* production; the restraint scaling never increases (5.0, 2.0, 1.0);
\* restraints go off after the first half of NPT and stay off, so
\* production runs unrestrained; the barostat is off throughout NVT and on
\* during NPT and production.
StageRank(st) ==
  CASE st = STAGE_MINIMIZE -> 1
    [] st = STAGE_HEAT -> 2
    [] st = STAGE_NVT -> 3
    [] st = STAGE_NPT -> 4
    [] st = STAGE_PRODUCTION -> 5
    [] OTHER -> 0

C9_StageProtocol ==
  /\ \A k \in 1..Len(runLog) : StageRank(runLog[k].stage) >= 1
  /\ \A k \in 1..(Len(runLog) - 1) :
       StageRank(runLog[k].stage) <= StageRank(runLog[k + 1].stage)
  /\ Len(runLog) >= 1 => runLog[1].stage = STAGE_MINIMIZE
  /\ \A k \in 1..(Len(runLog) - 1) :
       StageRank(runLog[k + 1].stage) <= StageRank(runLog[k].stage) + 1
  /\ \A k \in 1..Len(runLog) :
       LET g == runLog[k] IN
       /\ g.stage = STAGE_MINIMIZE => ~Has(g, "constraints") /\ g.cmd = "minimize"
       /\ g.stage # STAGE_MINIMIZE => g.cmd = "run"
       /\ g.stage = STAGE_HEAT =>
            Is(g, "constraints", "on") /\ Is(g, "constraintScaling", 50)
       /\ g.stage = STAGE_NVT =>
            /\ Is(g, "constraints", "on") /\ Is(g, "constraintScaling", 20)
            /\ Is(g, "langevinPiston", "off")
       /\ g.stage = STAGE_NPT =>
            /\ Is(g, "constraintScaling", 10)
            /\ Is(g, "langevinPiston", "on")
       /\ g.stage = STAGE_PRODUCTION =>
            /\ Is(g, "constraints", "off")
            /\ Is(g, "langevinPiston", "on")
  /\ \A j, k \in 1..Len(runLog) :
       (j < k /\ Has(runLog[j], "constraintScaling")) =>
         runLog[k].params["constraintScaling"]
           <= runLog[j].params["constraintScaling"]
  /\ \A j, k \in 1..Len(runLog) :
       (j < k /\ Is(runLog[j], "constraints", "off")) =>
         Is(runLog[k], "constraints", "off")
  /\ Len(Segs(STAGE_NPT)) <= 2
  /\ Len(Segs(STAGE_NPT)) >= 1 => Is(Segs(STAGE_NPT)[1], "constraints", "on")
  /\ Len(Segs(STAGE_NPT)) = 2 => Is(Segs(STAGE_NPT)[2], "constraints", "off")
  /\ stage = STAGE_COMPLETE =>
       \A r \in 1..5 : \E k \in 1..Len(runLog) : StageRank(runLog[k].stage) = r

C9_Witness ==
  /\ stage = STAGE_COMPLETE
  /\ Len(Segs(STAGE_PRODUCTION)) = 1
  /\ Len(Segs(STAGE_NPT)) = 2

\* C10: the steps run in each equilibration stage are the stage's declared
\* count: heating 50000 + 10 * 5000 = 100000 = heat_steps, NVT 250000 =
\* nvt_steps, NPT 125000 + 125000 = 250000 = npt_steps; minimization is
\* 10000 steps for every system and replica.
C10_StageStepCounts ==
  /\ \A k \in 1..Len(runLog) :
       runLog[k].stage = STAGE_MINIMIZE => runLog[k].steps = 10000
  /\ Len(Segs(STAGE_MINIMIZE)) <= 1
  /\ StageRank(stage) >= 2 \/ stage = STAGE_COMPLETE
       => Steps(Segs(STAGE_MINIMIZE)) = 10000
  /\ StageRank(stage) >= 3 \/ stage = STAGE_COMPLETE =>
       /\ Len(Segs(STAGE_HEAT)) = 11
       /\ Segs(STAGE_HEAT)[1].steps = 50000
       /\ \A k \in 1..10 : HeatRamp[k].steps = 5000
       /\ Steps(Segs(STAGE_HEAT)) = 100000
       /\ Steps(Segs(STAGE_HEAT)) = heat_steps
  /\ StageRank(stage) >= 4 \/ stage = STAGE_COMPLETE =>
       /\ Steps(Segs(STAGE_NVT)) = 250000
       /\ Steps(Segs(STAGE_NVT)) = nvt_steps
  /\ StageRank(stage) >= 5 \/ stage = STAGE_COMPLETE =>
       /\ Len(Segs(STAGE_NPT)) = 2
       /\ Segs(STAGE_NPT)[1].steps = 125000
       /\ Segs(STAGE_NPT)[2].steps = 125000
       /\ Steps(Segs(STAGE_NPT)) = 250000
       /\ Steps(Segs(STAGE_NPT)) = npt_steps

C10_Witness ==
  /\ stage = STAGE_COMPLETE
  /\ Steps(Segs(STAGE_HEAT)) = 100000
  /\ job.system_size = "xlarge"

====
